---- MODULE Spec2Model ----
(***************************************************************************)
(* Model of the terminal drivers of automate-terminal:                     *)
(*   terminals/base.py    BaseTerminal   (defaults, capability descriptor) *)
(*   terminals/tmux.py    TmuxTerminal   (multiplexer driver)              *)
(*   terminals/vscode.py  VSCodeTerminal (editor driver, vscode / cursor)  *)
(*                                                                         *)
(* Text is a sequence of one-character strings.  Every operation of a      *)
(* driver is an operator from its arguments and from the answers of the    *)
(* external collaborators to the value it returns and the calls it made;   *)
(* one action per operation applies it and records the outcome.            *)
(***************************************************************************)
EXTENDS Integers, Sequences, FiniteSets, TLC

VARIABLES
    dry_run,    \* command_service.dry_run
    is_macos,   \* applescript.is_macos
    environ,    \* process environment: TMUX_PANE, CURSOR_TRACE_ID
    op,         \* the operation that ran last
    self,       \* the driver it ran on
    args,       \* its arguments and the answers of the collaborators
    ret,        \* the value it returned
    raised,     \* TRUE when it let an exception escape
    calls       \* the external calls it made, in order

vars == <<dry_run, is_macos, environ, op, self, args, ret, raised, calls>>

-----------------------------------------------------------------------------
(* Bounds of the model *)

\* longest pane listing the list-panes query answers with
MaxPanes == 2

-----------------------------------------------------------------------------
(* Text *)

\* Python's None, of the type of a text
None == <<"<None>">>

\* Python truthiness of an optional text: None and "" are false
Truthy(s) == s # None /\ s # <<>>

Whitespace == {" ", "\n"}

RECURSIVE LStrip(_)
LStrip(s) ==
    IF s # <<>> /\ Head(s) \in Whitespace THEN LStrip(Tail(s)) ELSE s

RECURSIVE RStrip(_)
RStrip(s) ==
    IF s # <<>> /\ s[Len(s)] \in Whitespace
    THEN RStrip(SubSeq(s, 1, Len(s) - 1))
    ELSE s

\* str.strip()
Strip(s) == RStrip(LStrip(s))

\* str.startswith(prefix)
StartsWith(s, prefix) ==
    /\ Len(prefix) <= Len(s)
    /\ SubSeq(s, 1, Len(prefix)) = prefix

\* index of the first occurrence of the character c in s, 0 when absent
RECURSIVE IndexOf(_, _, _)
IndexOf(s, c, i) ==
    IF i > Len(s) THEN 0
    ELSE IF s[i] = c THEN i
    ELSE IndexOf(s, c, i + 1)

\* str.split(c): the pieces of s between the occurrences of c
RECURSIVE Split(_, _)
Split(s, c) ==
    LET i == IndexOf(s, c, 1)
    IN  IF i = 0 THEN <<s>>
        ELSE <<SubSeq(s, 1, i - 1)>> \o Split(SubSeq(s, i + 1, Len(s)), c)

\* c.join(parts)
RECURSIVE Join(_, _)
Join(parts, c) ==
    IF parts = <<>> THEN <<>>
    ELSE IF Len(parts) = 1 THEN parts[1]
    ELSE parts[1] \o <<c>> \o Join(Tail(parts), c)

RECURSIVE Flatten(_)
Flatten(ss) == IF ss = <<>> THEN <<>> ELSE Head(ss) \o Flatten(Tail(ss))

-----------------------------------------------------------------------------
(* The file system the paths are resolved against *)

\* the working directory of the process, as path segments
Cwd == <<<<"a">>>>

\* a symbolic link that points to itself: /l -> /l
SymlinkLoop == <<<<"l">>>>

\* the symbolic links: /s -> /a
SymlinkTarget(segs) ==
    IF segs = <<<<"s">>>> THEN <<<<"a">>>> ELSE segs

\* the directories that exist, as resolved segment lists
ExistingDirs ==
    { <<>>,
      <<<<"a">>>>,
      <<<<"a">>, <<"b">>>>,
      <<<<"a">>, <<"b">>, <<"c">>>>,
      <<<<"a">>, <<"b", "c">>>>,
      <<<<"b">>>> }

\* walk the segments left to right: "" and "." are dropped, ".." pops,
\* a prefix that is a symbolic link is replaced by its target
RECURSIVE ResolveSegs(_, _)
ResolveSegs(done, todo) ==
    IF todo = <<>> THEN done
    ELSE LET seg == Head(todo)
         IN  IF seg = <<>> \/ seg = <<".">>
             THEN ResolveSegs(done, Tail(todo))
             ELSE IF seg = <<".", ".">>
             THEN ResolveSegs(IF done = <<>> THEN <<>>
                              ELSE SubSeq(done, 1, Len(done) - 1),
                              Tail(todo))
             ELSE ResolveSegs(SymlinkTarget(Append(done, seg)), Tail(todo))

\* the resolved segments of a path text
PathSegs(p) ==
    ResolveSegs(IF p # <<>> /\ Head(p) = "/" THEN <<>> ELSE Cwd,
                Split(p, "/"))

\* str(Path(p).resolve())
Resolve(p) == <<"/">> \o Join(PathSegs(p), "/")

\* the walk of ResolveSegs comes upon the link that points to itself
RECURSIVE LoopSegs(_, _)
LoopSegs(done, todo) ==
    IF todo = <<>> THEN FALSE
    ELSE LET seg == Head(todo)
         IN  IF seg = <<>> \/ seg = <<".">>
             THEN LoopSegs(done, Tail(todo))
             ELSE IF seg = <<".", ".">>
             THEN LoopSegs(IF done = <<>> THEN <<>>
                           ELSE SubSeq(done, 1, Len(done) - 1),
                           Tail(todo))
             ELSE IF Append(done, seg) = SymlinkLoop THEN TRUE
             ELSE LoopSegs(SymlinkTarget(Append(done, seg)), Tail(todo))

\* Path(p).resolve() raises (RuntimeError: Symlink loop)
ResolveRaises(p) ==
    LoopSegs(IF p # <<>> /\ Head(p) = "/" THEN <<>> ELSE Cwd, Split(p, "/"))

\* Path(p).exists()
PathExists(p) == PathSegs(p) \in ExistingDirs

-----------------------------------------------------------------------------
(* External collaborators *)

\* the answers a command can give: exit code, captured output, or a fault
Answer(rc, out) == [returncode |-> rc, stdout |-> out, raised |-> FALSE]
Fault == [returncode |-> 1, stdout |-> <<>>, raised |-> TRUE]

\* run_command_r: the command is always executed
run_command_r(answer) == answer @@ [executed |-> TRUE]

\* run_command_rw: under dry-run the command is not executed and a
\* success-shaped result is returned
run_command_rw(flag, answer) ==
    IF flag THEN Answer(0, <<>>) @@ [executed |-> FALSE]
    ELSE answer @@ [executed |-> TRUE]

\* run_command: no dry-run flag, the command is always executed
run_command(answer) == answer @@ [executed |-> TRUE]

\* one entry of the call log
Call(fn, verb, target, payload, enter, mutating, result) ==
    [fn |-> fn, verb |-> verb, target |-> target, payload |-> payload,
     enter |-> enter, mutating |-> mutating,
     executed |-> result.executed, returncode |-> result.returncode,
     stdout |-> result.stdout, raised |-> result.raised]

\* what an operation hands back
Outcome(value, log) == [ret |-> value, calls |-> log, raised |-> FALSE]
Escaped(log) == [ret |-> None, calls |-> log, raised |-> TRUE]

-----------------------------------------------------------------------------
(* TmuxTerminal *)

\* TmuxTerminal.get_current_session_id: os.getenv("TMUX_PANE")
Tmux_get_current_session_id(env) == Outcome(env.TMUX_PANE, <<>>)

\* switch_to_session without the check of select-window's exit code
Tmux_switch_to_session_NoWindowCheck(session_id, session_init_script, flag, o) ==
    LET window_result == run_command_r(o.query)
        c1 == Call("run_command_r", "display-message #{window_id}",
                   session_id, None, FALSE, FALSE, window_result)
    IN  IF window_result.raised THEN Outcome(FALSE, <<c1>>)
        ELSE IF window_result.returncode # 0 THEN Outcome(FALSE, <<c1>>)
        ELSE
        LET window_id == Strip(window_result.stdout)
            select_window_result == run_command_rw(flag, o.select_window)
            c2 == Call("run_command_rw", "select-window",
                       window_id, None, FALSE, TRUE, select_window_result)
        IN  IF select_window_result.raised THEN Outcome(FALSE, <<c1, c2>>)
            ELSE
            LET result == run_command_rw(flag, o.select_pane)
                c3 == Call("run_command_rw", "select-pane",
                           session_id, None, FALSE, TRUE, result)
            IN  IF result.raised THEN Outcome(FALSE, <<c1, c2, c3>>)
                ELSE IF result.returncode # 0
                THEN Outcome(FALSE, <<c1, c2, c3>>)
                ELSE IF Truthy(session_init_script)
                THEN
                LET send_result == run_command_rw(flag, o.send_keys)
                    c4 == Call("run_command_rw", "send-keys",
                               session_id, session_init_script, TRUE, TRUE,
                               send_result)
                IN  IF send_result.raised
                    THEN Outcome(FALSE, <<c1, c2, c3, c4>>)
                    ELSE Outcome(send_result.returncode = 0,
                                 <<c1, c2, c3, c4>>)
                ELSE Outcome(TRUE, <<c1, c2, c3>>)

\* switch_to_session returning true whatever send-keys answered
Tmux_switch_to_session_IgnoresSend(session_id, session_init_script, flag, o) ==
    LET window_result == run_command_r(o.query)
        c1 == Call("run_command_r", "display-message #{window_id}",
                   session_id, None, FALSE, FALSE, window_result)
    IN  IF window_result.raised THEN Outcome(FALSE, <<c1>>)
        ELSE IF window_result.returncode # 0 THEN Outcome(FALSE, <<c1>>)
        ELSE
        LET window_id == Strip(window_result.stdout)
            select_window_result == run_command_rw(flag, o.select_window)
            c2 == Call("run_command_rw", "select-window",
                       window_id, None, FALSE, TRUE, select_window_result)
        IN  IF select_window_result.raised THEN Outcome(FALSE, <<c1, c2>>)
            ELSE IF select_window_result.returncode # 0
            THEN Outcome(FALSE, <<c1, c2>>)
            ELSE
            LET result == run_command_rw(flag, o.select_pane)
                c3 == Call("run_command_rw", "select-pane",
                           session_id, None, FALSE, TRUE, result)
            IN  IF result.raised THEN Outcome(FALSE, <<c1, c2, c3>>)
                ELSE IF result.returncode # 0
                THEN Outcome(FALSE, <<c1, c2, c3>>)
                ELSE IF Truthy(session_init_script)
                THEN
                LET send_result == run_command_rw(flag, o.send_keys)
                    c4 == Call("run_command_rw", "send-keys",
                               session_id, session_init_script, TRUE, TRUE,
                               send_result)
                IN  IF send_result.raised
                    THEN Outcome(FALSE, <<c1, c2, c3, c4>>)
                    ELSE Outcome(TRUE, <<c1, c2, c3, c4>>)
                ELSE Outcome(TRUE, <<c1, c2, c3>>)

\* TmuxTerminal.supports_session_management
Tmux_supports_session_management == Outcome(TRUE, <<>>)

\* switch_to_session leaving the init script out under dry-run
Tmux_switch_to_session_DryRunSkipsSend(session_id, session_init_script, flag, o) ==
    LET window_result == run_command_r(o.query)
        c1 == Call("run_command_r", "display-message #{window_id}",
                   session_id, None, FALSE, FALSE, window_result)
        select_window_result == run_command_rw(flag, o.select_window)
        c2 == Call("run_command_rw", "select-window",
                   Strip(window_result.stdout), None, FALSE, TRUE,
                   select_window_result)
        result == run_command_rw(flag, o.select_pane)
        c3 == Call("run_command_rw", "select-pane",
                   session_id, None, FALSE, TRUE, result)
        send_result == run_command_rw(flag, o.send_keys)
        c4 == Call("run_command_rw", "send-keys",
                   session_id, session_init_script, TRUE, TRUE, send_result)
    IN  IF window_result.raised \/ window_result.returncode # 0
        THEN Outcome(FALSE, <<c1>>)
        ELSE IF select_window_result.raised
                \/ select_window_result.returncode # 0
        THEN Outcome(FALSE, <<c1, c2>>)
        ELSE IF result.raised \/ result.returncode # 0
        THEN Outcome(FALSE, <<c1, c2, c3>>)
        ELSE IF Truthy(session_init_script) /\ ~flag
        THEN Outcome(~send_result.raised /\ send_result.returncode = 0,
                     <<c1, c2, c3, c4>>)
        ELSE Outcome(TRUE, <<c1, c2, c3>>)

\* TmuxTerminal.switch_to_session; o holds the answers of the four commands
Tmux_switch_to_session(session_id, session_init_script, flag, o) ==
    LET window_result == run_command_r(o.query)
        c1 == Call("run_command_r", "display-message #{window_id}",
                   session_id, None, FALSE, FALSE, window_result)
    IN  IF window_result.raised THEN Outcome(FALSE, <<c1>>)
        ELSE IF window_result.returncode # 0 THEN Outcome(FALSE, <<c1>>)
        ELSE
        LET window_id == Strip(window_result.stdout)
            select_window_result == run_command_rw(flag, o.select_window)
            c2 == Call("run_command_rw", "select-window",
                       window_id, None, FALSE, TRUE, select_window_result)
        IN  IF select_window_result.raised THEN Outcome(FALSE, <<c1, c2>>)
            ELSE IF select_window_result.returncode # 0
            THEN Outcome(FALSE, <<c1, c2>>)
            ELSE
            LET result == run_command_rw(flag, o.select_pane)
                c3 == Call("run_command_rw", "select-pane",
                           session_id, None, FALSE, TRUE, result)
            IN  IF result.raised THEN Outcome(FALSE, <<c1, c2, c3>>)
                ELSE IF result.returncode # 0
                THEN Outcome(FALSE, <<c1, c2, c3>>)
                ELSE IF Truthy(session_init_script)
                THEN
                LET send_result == run_command_rw(flag, o.send_keys)
                    c4 == Call("run_command_rw", "send-keys",
                               session_id, session_init_script, TRUE, TRUE,
                               send_result)
                IN  IF send_result.raised
                    THEN Outcome(FALSE, <<c1, c2, c3, c4>>)
                    ELSE Outcome(send_result.returncode = 0,
                                 <<c1, c2, c3, c4>>)
                ELSE Outcome(TRUE, <<c1, c2, c3>>)

\* open_new_tab not handing the dry-run flag to run_command_rw
Tmux_open_new_tab_NoDryRun(working_directory, session_init_script, flag, o) ==
    LET result == run_command_rw(FALSE, o.create)
        c1 == Call("run_command_rw", "new-window -c",
                   working_directory,
                   IF Truthy(session_init_script)
                   THEN session_init_script ELSE None,
                   FALSE, TRUE, result)
    IN  IF result.raised THEN Outcome(FALSE, <<c1>>)
        ELSE Outcome(result.returncode = 0, <<c1>>)

\* TmuxTerminal.open_new_tab: one new-window command; the script, when
\* given, is appended to it as the command of the new window
Tmux_open_new_tab(working_directory, session_init_script, flag, o) ==
    LET result == run_command_rw(flag, o.create)
        c1 == Call("run_command_rw", "new-window -c",
                   working_directory,
                   IF Truthy(session_init_script)
                   THEN session_init_script ELSE None,
                   FALSE, TRUE, result)
    IN  IF result.raised THEN Outcome(FALSE, <<c1>>)
        ELSE Outcome(result.returncode = 0, <<c1>>)

\* open_new_window without the check of new-session's exit code
Tmux_open_new_window_NoCreateCheck(working_directory, session_init_script, flag, o) ==
    LET result == run_command_rw(flag, o.create)
        c1 == Call("run_command_rw", "new-session -d -c",
                   working_directory, None, FALSE, TRUE, result)
    IN  IF result.raised THEN Outcome(FALSE, <<c1>>)
        ELSE IF Truthy(session_init_script)
        THEN
        LET session_result == run_command_r(o.query)
            c2 == Call("run_command_r", "display-message -t #{session_id}",
                       None, None, FALSE, FALSE, session_result)
        IN  IF session_result.raised THEN Outcome(FALSE, <<c1, c2>>)
            ELSE IF session_result.returncode = 0
                    /\ session_result.stdout # <<>>
            THEN
            LET session_id == Strip(session_result.stdout)
                send_result == run_command_rw(flag, o.send_keys)
                c3 == Call("run_command_rw", "send-keys",
                           session_id, session_init_script, TRUE, TRUE,
                           send_result)
            IN  IF send_result.raised THEN Outcome(FALSE, <<c1, c2, c3>>)
                ELSE Outcome(TRUE, <<c1, c2, c3>>)
            ELSE Outcome(TRUE, <<c1, c2>>)
        ELSE Outcome(TRUE, <<c1>>)

\* open_new_window reporting a failed identifier query as a failure
Tmux_open_new_window_QueryDecides(working_directory, session_init_script, flag, o) ==
    LET result == run_command_rw(flag, o.create)
        c1 == Call("run_command_rw", "new-session -d -c",
                   working_directory, None, FALSE, TRUE, result)
    IN  IF result.raised THEN Outcome(FALSE, <<c1>>)
        ELSE IF result.returncode # 0 THEN Outcome(FALSE, <<c1>>)
        ELSE IF Truthy(session_init_script)
        THEN
        LET session_result == run_command_r(o.query)
            c2 == Call("run_command_r", "display-message -t #{session_id}",
                       None, None, FALSE, FALSE, session_result)
        IN  IF session_result.raised THEN Outcome(FALSE, <<c1, c2>>)
            ELSE IF session_result.returncode = 0
                    /\ session_result.stdout # <<>>
            THEN
            LET session_id == Strip(session_result.stdout)
                send_result == run_command_rw(flag, o.send_keys)
                c3 == Call("run_command_rw", "send-keys",
                           session_id, session_init_script, TRUE, TRUE,
                           send_result)
            IN  IF send_result.raised THEN Outcome(FALSE, <<c1, c2, c3>>)
                ELSE Outcome(TRUE, <<c1, c2, c3>>)
            ELSE Outcome(FALSE, <<c1, c2>>)
        ELSE Outcome(TRUE, <<c1>>)

\* open_new_window reporting the exit code of its send-keys
Tmux_open_new_window_ReportsSend(working_directory, session_init_script, flag, o) ==
    LET result == run_command_rw(flag, o.create)
        c1 == Call("run_command_rw", "new-session -d -c",
                   working_directory, None, FALSE, TRUE, result)
        session_result == run_command_r(o.query)
        c2 == Call("run_command_r", "display-message -t #{session_id}",
                   None, None, FALSE, FALSE, session_result)
        send_result == run_command_rw(flag, o.send_keys)
        c3 == Call("run_command_rw", "send-keys",
                   Strip(session_result.stdout), session_init_script,
                   TRUE, TRUE, send_result)
    IN  IF result.raised \/ result.returncode # 0 THEN Outcome(FALSE, <<c1>>)
        ELSE IF ~Truthy(session_init_script) THEN Outcome(TRUE, <<c1>>)
        ELSE IF session_result.raised THEN Outcome(FALSE, <<c1, c2>>)
        ELSE IF session_result.returncode # 0 \/ session_result.stdout = <<>>
        THEN Outcome(TRUE, <<c1, c2>>)
        ELSE Outcome(~send_result.raised /\ send_result.returncode = 0,
                     <<c1, c2, c3>>)

\* TmuxTerminal.open_new_window: new-session, then with a script the query
\* of the session identifier and the send-keys to it
Tmux_open_new_window(working_directory, session_init_script, flag, o) ==
    LET result == run_command_rw(flag, o.create)
        c1 == Call("run_command_rw", "new-session -d -c",
                   working_directory, None, FALSE, TRUE, result)
    IN  IF result.raised THEN Outcome(FALSE, <<c1>>)
        ELSE IF result.returncode # 0 THEN Outcome(FALSE, <<c1>>)
        ELSE IF Truthy(session_init_script)
        THEN
        LET session_result == run_command_r(o.query)
            c2 == Call("run_command_r", "display-message -t #{session_id}",
                       None, None, FALSE, FALSE, session_result)
        IN  IF session_result.raised THEN Outcome(FALSE, <<c1, c2>>)
            ELSE IF session_result.returncode = 0
                    /\ session_result.stdout # <<>>
            THEN
            LET session_id == Strip(session_result.stdout)
                send_result == run_command_rw(flag, o.send_keys)
                c3 == Call("run_command_rw", "send-keys",
                           session_id, session_init_script, TRUE, TRUE,
                           send_result)
            IN  IF send_result.raised THEN Outcome(FALSE, <<c1, c2, c3>>)
                ELSE Outcome(TRUE, <<c1, c2, c3>>)
            ELSE Outcome(TRUE, <<c1, c2>>)
        ELSE Outcome(TRUE, <<c1>>)

\* run_in_active_session without the test of the marker at lines 411-413
Tmux_run_in_active_session_NoMarkerCheck(command, env, flag, o) ==
    LET current_pane == Tmux_get_current_session_id(env).ret
        result == run_command_rw(flag, o.send_keys)
        c1 == Call("run_command_rw", "send-keys",
                   current_pane, command, TRUE, TRUE, result)
    IN  IF result.raised THEN Outcome(FALSE, <<c1>>)
        ELSE Outcome(result.returncode = 0, <<c1>>)

\* TmuxTerminal.run_in_active_session: send-keys to the pane of TMUX_PANE
Tmux_run_in_active_session(command, env, flag, o) ==
    LET current_pane == Tmux_get_current_session_id(env).ret
    IN  IF ~Truthy(current_pane) THEN Outcome(FALSE, <<>>)
        ELSE
        LET result == run_command_rw(flag, o.send_keys)
            c1 == Call("run_command_rw", "send-keys",
                       current_pane, command, TRUE, TRUE, result)
        IN  IF result.raised THEN Outcome(FALSE, <<c1>>)
            ELSE Outcome(result.returncode = 0, <<c1>>)

\* the records of a pane listing: [line.strip() for line in
\* stdout.strip().split("\n")]
StrippedLines(out) ==
    LET lines == Split(Strip(out), "\n")
    IN  [i \in 1..Len(lines) |-> Strip(lines[i])]

\* TmuxTerminal.session_exists: the identifier is among the listed panes
Tmux_session_exists(session_id, o) ==
    IF ~Truthy(session_id) THEN Outcome(FALSE, <<>>)
    ELSE
    LET result == run_command_r(o.list)
        c1 == Call("run_command_r", "list-panes -a -F #{pane_id}",
                   None, None, FALSE, FALSE, result)
    IN  IF result.raised THEN Outcome(FALSE, <<c1>>)
        ELSE IF result.returncode = 0 /\ result.stdout # <<>>
        THEN LET pane_ids == StrippedLines(result.stdout)
             IN  Outcome(\E i \in 1..Len(pane_ids) : pane_ids[i] = session_id,
                         <<c1>>)
        ELSE Outcome(FALSE, <<c1>>)

\* str(PurePath(p)): empty and "." segments dropped, nothing resolved
PathStr(p) ==
    LET segs == SelectSeq(Split(p, "/"),
                          LAMBDA g : g # <<>> /\ g # <<".">>)
        absolute == p # <<>> /\ Head(p) = "/"
    IN  IF absolute THEN <<"/">> \o Join(segs, "/")
        ELSE IF segs = <<>> THEN <<".">>
        ELSE Join(segs, "/")

\* TmuxTerminal.session_in_directory: the pane's current path, as
\* reported, equals str(directory)
Tmux_session_in_directory(session_id, directory, o) ==
    IF ~Truthy(session_id) THEN Outcome(FALSE, <<>>)
    ELSE
    LET result == run_command_r(o.query)
        c1 == Call("run_command_r", "display-message #{pane_current_path}",
                   session_id, None, FALSE, FALSE, result)
    IN  IF result.raised THEN Outcome(FALSE, <<c1>>)
        ELSE IF result.returncode = 0 /\ result.stdout # <<>>
        THEN LET pane_path == Strip(result.stdout)
             IN  Outcome(pane_path = PathStr(directory), <<c1>>)
        ELSE Outcome(FALSE, <<c1>>)

\* line.split("|", 1) of a line that holds a pipe
SplitOnce(line) ==
    LET i == IndexOf(line, "|", 1)
    IN  <<SubSeq(line, 1, i - 1), SubSeq(line, i + 1, Len(line))>>

\* the loop of list_sessions over the stripped lines
RECURSIVE ParseLines(_)
ParseLines(lines) ==
    IF lines = <<>> THEN <<>>
    ELSE LET line == Head(lines)
         IN  IF line # <<>> /\ IndexOf(line, "|", 1) # 0
             THEN <<[session_id |-> Strip(SplitOnce(line)[1]),
                     working_directory |-> Strip(SplitOnce(line)[2])]>>
                  \o ParseLines(Tail(lines))
             ELSE ParseLines(Tail(lines))

\* TmuxTerminal.list_sessions
Tmux_list_sessions(o) ==
    LET result == run_command_r(o.list)
        c1 == Call("run_command_r",
                   "list-panes -a -F #{pane_id}|#{pane_current_path}",
                   None, None, FALSE, FALSE, result)
    IN  IF result.raised THEN Outcome(<<>>, <<c1>>)
        ELSE IF result.returncode # 0 \/ result.stdout = <<>>
        THEN Outcome(<<>>, <<c1>>)
        ELSE Outcome(ParseLines(StrippedLines(result.stdout)), <<c1>>)

\* the exact pass taking a path that merely starts with the target
RECURSIVE ExactMatch_Prefix(_, _, _)
ExactMatch_Prefix(sessions, target_path, i) ==
    IF i > Len(sessions) THEN 0
    ELSE IF StartsWith(Resolve(sessions[i].working_directory), target_path)
    THEN i
    ELSE ExactMatch_Prefix(sessions, target_path, i + 1)

\* index of the first session whose resolved path equals the target, 0 if none
RECURSIVE ExactMatch(_, _, _)
ExactMatch(sessions, target_path, i) ==
    IF i > Len(sessions) THEN 0
    ELSE IF Resolve(sessions[i].working_directory) = target_path THEN i
    ELSE ExactMatch(sessions, target_path, i + 1)

\* the subdirectory pass without the separator appended to the target
RECURSIVE SubdirectoryMatch_BarePrefix(_, _, _)
SubdirectoryMatch_BarePrefix(sessions, target_path, i) ==
    IF i > Len(sessions) THEN 0
    ELSE IF StartsWith(Resolve(sessions[i].working_directory), target_path)
    THEN i
    ELSE SubdirectoryMatch_BarePrefix(sessions, target_path, i + 1)

\* index of the first session whose resolved path starts with target + "/"
RECURSIVE SubdirectoryMatch(_, _, _)
SubdirectoryMatch(sessions, target_path, i) ==
    IF i > Len(sessions) THEN 0
    ELSE IF StartsWith(Resolve(sessions[i].working_directory),
                       target_path \o <<"/">>) THEN i
    ELSE SubdirectoryMatch(sessions, target_path, i + 1)

\* index of the first session that either pass would take, 0 if none
RECURSIVE EitherMatch(_, _, _, _)
EitherMatch(sessions, target_path, subdirectory_ok, i) ==
    IF i > Len(sessions) THEN 0
    ELSE IF \/ Resolve(sessions[i].working_directory) = target_path
            \/ /\ subdirectory_ok
               /\ StartsWith(Resolve(sessions[i].working_directory),
                             target_path \o <<"/">>)
    THEN i
    ELSE EitherMatch(sessions, target_path, subdirectory_ok, i + 1)

\* find_session_by_working_directory with its two passes merged into one
Tmux_find_session_by_working_directory_SinglePass(target_path, subdirectory_ok, o) ==
    LET listed == Tmux_list_sessions(o)
        sessions == listed.ret
        either == EitherMatch(sessions, Resolve(target_path),
                              subdirectory_ok, 1)
    IN  IF ResolveRaises(target_path) THEN Escaped(listed.calls)
        ELSE IF either # 0
        THEN Outcome(sessions[either].session_id, listed.calls)
        ELSE Outcome(None, listed.calls)

\* TmuxTerminal.find_session_by_working_directory: the listing is made
\* first, then the target is resolved outside any try block; the listed
\* paths of the model all resolve
Tmux_find_session_by_working_directory(target_path, subdirectory_ok, o) ==
    LET listed == Tmux_list_sessions(o)
        sessions == listed.ret
        target == Resolve(target_path)
        exact == ExactMatch(sessions, target, 1)
        below == SubdirectoryMatch(sessions, target, 1)
    IN  IF ResolveRaises(target_path) THEN Escaped(listed.calls)
        ELSE IF exact # 0 THEN Outcome(sessions[exact].session_id, listed.calls)
        ELSE IF subdirectory_ok /\ below # 0
        THEN Outcome(sessions[below].session_id, listed.calls)
        ELSE Outcome(None, listed.calls)

\* TmuxTerminal._can_* : all eight overridden to True
Tmux_can_create_tabs == TRUE
Tmux_can_create_windows == TRUE
Tmux_can_list_sessions == TRUE
Tmux_can_switch_to_session == TRUE
Tmux_can_detect_session_id == TRUE
Tmux_can_detect_working_directory == TRUE
Tmux_can_paste_commands == TRUE
Tmux_can_run_in_active_session == TRUE

-----------------------------------------------------------------------------
(* BaseTerminal: the defaults a driver inherits *)

Base_supports_session_management == Outcome(FALSE, <<>>)
Base_session_exists(session_id) == Outcome(FALSE, <<>>)
Base_session_in_directory(session_id, directory) == Outcome(FALSE, <<>>)
Base_list_sessions == Outcome(<<>>, <<>>)
Base_find_session_by_working_directory(target_path, subdirectory_ok) ==
    Outcome(None, <<>>)
Base_run_in_active_session(command) == Outcome(FALSE, <<>>)

Base_can_create_tabs == FALSE
Base_can_create_windows == FALSE
Base_can_list_sessions == FALSE
Base_can_switch_to_session == FALSE
Base_can_detect_session_id == FALSE
Base_can_detect_working_directory == FALSE
Base_can_paste_commands == FALSE
Base_can_run_in_active_session == FALSE

-----------------------------------------------------------------------------
(* VSCodeTerminal, variant "vscode" or "cursor" *)

App_Code == <<"C", "o", "d", "e">>
App_VisualStudioCode ==
    <<"V", "i", "s", "u", "a", "l", " ", "S", "t", "u", "d", "i", "o", " ",
      "C", "o", "d", "e">>
App_Cursor == <<"C", "u", "r", "s", "o", "r">>

\* VSCodeTerminal.app_names
app_names(variant) ==
    IF variant = "vscode" THEN <<App_Code, App_VisualStudioCode>>
    ELSE <<App_Cursor>>

\* VSCodeTerminal.cli_command
cli_command(variant) ==
    IF variant = "vscode" THEN <<"c", "o", "d", "e">>
    ELSE <<"c", "u", "r", "s", "o", "r">>

\* urllib.parse.quote of one character, safe="/"
QuoteChar(c) ==
    IF c = " " THEN <<"%", "2", "0">>
    ELSE IF c = "|" THEN <<"%", "7", "C">>
    ELSE <<c>>

\* urllib.parse.quote(s, safe="/")
Quote(s) == Flatten([i \in 1..Len(s) |-> QuoteChar(s[i])])

\* VSCodeTerminal._path_to_file_url
path_to_file_url(path) == <<"f", "i", "l", "e", ":", "/", "/">> \o Quote(Resolve(path))

\* the test both AppleScripts make on the windows of one process: some
\* window has a document whose URL starts with the target or the target
\* starts with it; a window without the attribute is passed over
ScriptMatch(process, target_url) ==
    /\ process.running
    /\ \E i \in 1..Len(process.windows) :
          /\ process.windows[i] # None
          /\ \/ StartsWith(process.windows[i], target_url)
             \/ StartsWith(target_url, process.windows[i])

\* applescript.execute_with_result for one process: the script's value as
\* text, None when the scripting host reports an error, or a fault
execute_with_result(process, target_url, host) ==
    IF host = "raise" THEN Fault @@ [executed |-> TRUE]
    ELSE IF host = "error" THEN Answer(1, None) @@ [executed |-> TRUE]
    ELSE Answer(0, IF ScriptMatch(process, target_url)
                   THEN <<"t", "r", "u", "e">>
                   ELSE <<"f", "a", "l", "s", "e">>) @@ [executed |-> TRUE]

\* the loop over app_names shared by session_exists and
\* _find_window_with_path: stops at the first "true", a fault escapes it
RECURSIVE ScriptLoop(_, _, _, _, _, _)
ScriptLoop(names, i, verb, target_url, o, log) ==
    IF i > Len(names) THEN Outcome(FALSE, log)
    ELSE
    LET result == execute_with_result(o.desktop[i], target_url, o.host[i])
        c == Call("execute_with_result", verb, names[i], target_url,
                  FALSE, verb = "activate window", result)
    IN  IF result.raised THEN Escaped(Append(log, c))
        ELSE IF result.stdout = <<"t", "r", "u", "e">>
        THEN Outcome(TRUE, Append(log, c))
        ELSE ScriptLoop(names, i + 1, verb, target_url, o, Append(log, c))

\* VSCodeTerminal._find_window_with_path
find_window_with_path(variant, workspace_path, macos, o) ==
    IF ~macos THEN Outcome(FALSE, <<>>)
    ELSE IF ResolveRaises(workspace_path) THEN Escaped(<<>>)
    ELSE ScriptLoop(app_names(variant), 1, "activate window",
                    path_to_file_url(workspace_path), o, <<>>)

\* VSCodeTerminal.detect: os.getenv gives None for an unset variable, and
\* bool() of None and of the empty text is False
VSCode_detect(variant, term_program, platform, env) ==
    IF term_program # <<"v", "s", "c", "o", "d", "e">>
    THEN Outcome(FALSE, <<>>)
    ELSE
    LET has_cursor_id == Truthy(env.CURSOR_TRACE_ID)
    IN  IF variant = "vscode" THEN Outcome(~has_cursor_id, <<>>)
        ELSE Outcome(has_cursor_id, <<>>)

\* VSCodeTerminal.get_current_session_id
VSCode_get_current_session_id == Outcome(None, <<>>)

\* VSCodeTerminal.supports_session_management
VSCode_supports_session_management(macos) == Outcome(macos, <<>>)

\* VSCodeTerminal.session_exists without the platform test of its first lines
VSCode_session_exists_NoPlatformCheck(variant, session_id, macos, o) ==
    IF ~PathExists(session_id) THEN Outcome(FALSE, <<>>)
    ELSE IF ResolveRaises(session_id) THEN Outcome(FALSE, <<>>)
    ELSE
    LET looked == ScriptLoop(app_names(variant), 1, "find window",
                             path_to_file_url(session_id), o, <<>>)
    IN  IF looked.raised THEN Outcome(FALSE, looked.calls) ELSE looked

\* VSCodeTerminal.session_exists
VSCode_session_exists(variant, session_id, macos, o) ==
    IF ~macos THEN Outcome(FALSE, <<>>)
    ELSE IF ~PathExists(session_id) THEN Outcome(FALSE, <<>>)
    ELSE IF ResolveRaises(session_id) THEN Outcome(FALSE, <<>>)
    ELSE
    LET looked == ScriptLoop(app_names(variant), 1, "find window",
                             path_to_file_url(session_id), o, <<>>)
    IN  IF looked.raised THEN Outcome(FALSE, looked.calls) ELSE looked

\* VSCodeTerminal.find_session_by_working_directory
VSCode_find_session_by_working_directory(variant, target_path, subdirectory_ok, macos, o) ==
    LET found == VSCode_session_exists(variant, target_path, macos, o)
    IN  Outcome(IF found.ret THEN target_path ELSE None, found.calls)

\* VSCodeTerminal.switch_to_session
VSCode_switch_to_session(variant, session_id, session_init_script, macos, o) ==
    IF ~macos THEN Outcome(FALSE, <<>>)
    ELSE
    LET found == find_window_with_path(variant, session_id, macos, o)
    IN  IF found.raised THEN Outcome(FALSE, found.calls) ELSE found

\* VSCodeTerminal.open_new_tab
VSCode_open_new_tab(working_directory, session_init_script) ==
    Outcome(FALSE, <<>>)

\* open_new_window giving up when it is handed an init script
VSCode_open_new_window_RefusesScript(variant, working_directory, session_init_script, o) ==
    IF ~o.cli_available THEN Outcome(FALSE, <<>>)
    ELSE IF Truthy(session_init_script) THEN Outcome(FALSE, <<>>)
    ELSE
    LET result == run_command(o.launch)
        c1 == Call("run_command", "-n", working_directory,
                   cli_command(variant), FALSE, TRUE, result)
    IN  IF result.raised THEN Outcome(FALSE, <<c1>>)
        ELSE Outcome(result.returncode = 0, <<c1>>)

\* VSCodeTerminal.open_new_window: the launcher, when it is on the PATH
VSCode_open_new_window(variant, working_directory, session_init_script, o) ==
    IF ~o.cli_available THEN Outcome(FALSE, <<>>)
    ELSE
    LET result == run_command(o.launch)
        c1 == Call("run_command", "-n", working_directory,
                   cli_command(variant), FALSE, TRUE, result)
    IN  IF result.raised THEN Outcome(FALSE, <<c1>>)
        ELSE Outcome(result.returncode = 0, <<c1>>)

\* VSCodeTerminal._can_* : the predicates the class overrides
VSCode_can_create_tabs == FALSE
VSCode_can_create_windows == TRUE
VSCode_can_list_sessions == FALSE
VSCode_can_switch_to_session_AnyPlatform(macos) == TRUE
VSCode_can_switch_to_session(macos) == macos
VSCode_can_detect_session_id == FALSE
VSCode_can_paste_commands == FALSE

-----------------------------------------------------------------------------
(* Method resolution: the drivers and what each inherits or overrides *)

\* a driver that overrides nothing, the multiplexer, the two editor variants
Drivers == {"minimal", "tmux", "vscode", "cursor"}
Editors == {"vscode", "cursor"}

can_create_tabs(d, macos) ==
    IF d = "tmux" THEN Tmux_can_create_tabs
    ELSE IF d \in Editors THEN VSCode_can_create_tabs
    ELSE Base_can_create_tabs

can_create_windows(d, macos) ==
    IF d = "tmux" THEN Tmux_can_create_windows
    ELSE IF d \in Editors THEN VSCode_can_create_windows
    ELSE Base_can_create_windows

can_list_sessions(d, macos) ==
    IF d = "tmux" THEN Tmux_can_list_sessions
    ELSE IF d \in Editors THEN VSCode_can_list_sessions
    ELSE Base_can_list_sessions

can_switch_to_session(d, macos) ==
    IF d = "tmux" THEN Tmux_can_switch_to_session
    ELSE IF d \in Editors THEN VSCode_can_switch_to_session(macos)
    ELSE Base_can_switch_to_session

can_detect_session_id(d, macos) ==
    IF d = "tmux" THEN Tmux_can_detect_session_id
    ELSE IF d \in Editors THEN VSCode_can_detect_session_id
    ELSE Base_can_detect_session_id

\* VSCodeTerminal does not override this predicate
can_detect_working_directory(d, macos) ==
    IF d = "tmux" THEN Tmux_can_detect_working_directory
    ELSE Base_can_detect_working_directory

can_paste_commands(d, macos) ==
    IF d = "tmux" THEN Tmux_can_paste_commands
    ELSE IF d \in Editors THEN VSCode_can_paste_commands
    ELSE Base_can_paste_commands

\* VSCodeTerminal does not override this predicate
can_run_in_active_session(d, macos) ==
    IF d = "tmux" THEN Tmux_can_run_in_active_session
    ELSE Base_can_run_in_active_session

\* BaseTerminal.get_capabilities
get_capabilities(d, macos) ==
    [can_create_tabs |-> can_create_tabs(d, macos),
     can_create_windows |-> can_create_windows(d, macos),
     can_list_sessions |-> can_list_sessions(d, macos),
     can_switch_to_session |-> can_switch_to_session(d, macos),
     can_detect_session_id |-> can_detect_session_id(d, macos),
     can_detect_working_directory |-> can_detect_working_directory(d, macos),
     can_paste_commands |-> can_paste_commands(d, macos),
     can_run_in_active_session |-> can_run_in_active_session(d, macos)]

-----------------------------------------------------------------------------
(* The arguments and the collaborators' answers the operations are run on *)

Pane0 == <<"%", "0">>
Pane1 == <<"%", "1">>

SessionIds == {<<>>, Pane0, Pane1}
Scripts == {None, <<>>, <<"l", "s">>}
Commands == {<<>>, <<"l", "s">>}

\* the paths given as arguments: absolute, with a trailing separator, with
\* relative segments, through the symbolic link /s, relative, the root,
\* the link that points to itself
PathTexts ==
    { <<"/">>,
      <<"/", "a">>,
      <<"/", "a", "/">>,
      <<"/", "s">>,
      <<"/", "a", "/", "b">>,
      <<"/", "a", "/", "b", "c">>,
      <<"/", "a", "/", "b", "/", ".", ".">>,
      <<"b">>,
      <<"/", "c">>,
      <<"/", "l">> }

\* answers of a mutating command
RWAnswers == {Answer(0, <<>>), Answer(1, <<>>), Fault}

\* answers of an identifier query: a token with a newline, with blanks
\* around it, nothing, blanks only, a nonzero exit, a fault
QueryAnswers ==
    { Answer(0, <<"@", "1", "\n">>),
      Answer(0, <<" ", "@", "2", " ", "\n">>),
      Answer(0, <<>>),
      Answer(0, <<"\n">>),
      Answer(1, <<>>),
      Fault }

\* the records a pane listing is made of: well-formed ones, one without a
\* pipe, one whose path holds a pipe, one whose path ends with a blank
ListingLines ==
    { <<"%", "0", "|", "/", "a">>,
      <<"%", "1", "|", "/", "a", "/", "b">>,
      <<"%", "2", "|", "/", "a", "/", "b", "c">>,
      <<"%", "3", "|", "/", "s", "/", "b", "/", "c">>,
      <<"%", "4", "|", "/", "a", "/", "b", "/">>,
      <<"%", "5">>,
      <<"%", "6", "|", "/", "c", "|", "d">>,
      <<"%", "7", "|", "/", "a", " ">> }

SeqsUpTo(S, n) == UNION {[1..k -> S] : k \in 0..n}

\* the lines, each ended by a newline
Lines(ls) == Flatten([i \in 1..Len(ls) |-> ls[i] \o <<"\n">>])

\* answers of the pane listing with paths
ListAnswers ==
    {Answer(0, Lines(ls)) : ls \in SeqsUpTo(ListingLines, MaxPanes)}
        \cup {Answer(1, <<>>), Fault}

\* answers of the pane listing without paths
PaneIdAnswers ==
    {Answer(0, Lines(ls)) : ls \in SeqsUpTo({Pane0, Pane1}, MaxPanes)}
        \cup {Answer(1, <<>>), Fault}

\* answers of the current-path query of a pane
PathAnswers ==
    {Answer(0, p \o <<"\n">>) : p \in PathTexts}
        \cup {Answer(0, <<>>), Answer(1, <<>>), Fault}

\* the identifiers the backend can give to a session it creates
CreatedIds == {<<"@", "1">>, <<"@", "2">>}

Url_a == <<"f", "i", "l", "e", ":", "/", "/", "/", "a">>
Url_ab == <<"f", "i", "l", "e", ":", "/", "/", "/", "a", "/", "b">>
Url_abc == <<"f", "i", "l", "e", ":", "/", "/", "/", "a", "/", "b", "c">>

\* an editor process as the scripting host sees it: not running, or its
\* windows, each with a document URL or without the attribute
Processes ==
    { [running |-> FALSE, windows |-> <<>>],
      [running |-> TRUE, windows |-> <<>>],
      [running |-> TRUE, windows |-> <<None>>],
      [running |-> TRUE, windows |-> <<Url_a>>],
      [running |-> TRUE, windows |-> <<None, Url_ab>>],
      [running |-> TRUE, windows |-> <<Url_abc>>] }

\* how the scripting host takes a script: runs it, reports an error, faults
Hosts == {"run", "error", "raise"}

\* the desktop an editor operation meets: per process name of the variant,
\* the process and the host's behaviour
Desktops(variant) ==
    [desktop : [1..Len(app_names(variant)) -> Processes],
     host : [1..Len(app_names(variant)) -> Hosts]]

\* the environment: each variable unset, set to the empty text, or set; no
\* operation reads both variables, so one of the two is varied at a time
Environs ==
    [TMUX_PANE : {None, <<>>, Pane0}, CURSOR_TRACE_ID : {None}]
        \cup [TMUX_PANE : {None}, CURSOR_TRACE_ID : {None, <<>>, <<"i", "d">>}]

\* TERM_PROGRAM as the caller read it: unset, the editors' value, another
TermPrograms == {None, <<"v", "s", "c", "o", "d", "e">>, <<"t", "m", "u", "x">>}

\* platform.system() as the caller read it
platform_name(macos) ==
    IF macos THEN <<"D", "a", "r", "w", "i", "n">>
    ELSE <<"L", "i", "n", "u", "x">>

-----------------------------------------------------------------------------
(* The state machine: the constructed drivers, one operation at a time *)

NoFlags ==
    [can_create_tabs |-> FALSE, can_create_windows |-> FALSE,
     can_list_sessions |-> FALSE, can_switch_to_session |-> FALSE,
     can_detect_session_id |-> FALSE, can_detect_working_directory |-> FALSE,
     can_paste_commands |-> FALSE, can_run_in_active_session |-> FALSE]

\* the returned value, one field per result type of the contract: bool,
\* str | None, list of sessions, Capabilities
NoValue == [bool |-> FALSE, text |-> None, sessions |-> <<>>, flags |-> NoFlags]

\* the parameters of the operations and o, the collaborators' answers
NoArgs ==
    [session_id |-> None, script |-> None, working_directory |-> None,
     target_path |-> None, directory |-> None, subdirectory_ok |-> FALSE,
     command |-> None, term_program |-> None, o |-> [asked |-> FALSE]]

Init ==
    /\ dry_run \in BOOLEAN
    /\ is_macos \in BOOLEAN
    /\ environ \in Environs
    /\ op = "idle"
    /\ self = "none"
    /\ args = NoArgs
    /\ ret = NoValue
    /\ raised = FALSE
    /\ calls = <<>>

\* the operation name ran on driver d with arguments a and returned value v
Ran(name, d, a, v, r) ==
    /\ op' = name
    /\ self' = d
    /\ args' = a
    /\ ret' = v
    /\ raised' = r.raised
    /\ calls' = r.calls
    /\ UNCHANGED <<dry_run, is_macos, environ>>

RanBool(name, d, a, r) ==
    Ran(name, d, a, [NoValue EXCEPT !.bool = ~r.raised /\ r.ret], r)

RanText(name, d, a, r) == Ran(name, d, a, [NoValue EXCEPT !.text = r.ret], r)

RanSessions(name, d, a, r) ==
    Ran(name, d, a, [NoValue EXCEPT !.sessions = r.ret], r)

RanFlags(name, d, a, r) == Ran(name, d, a, [NoValue EXCEPT !.flags = r.ret], r)

Detect ==
    /\ op = "idle"
    /\ \E d \in Editors, term_program \in TermPrograms :
           RanBool("detect", d, [NoArgs EXCEPT !.term_program = term_program],
                   VSCode_detect(d, term_program, platform_name(is_macos),
                                 environ))

GetCapabilities ==
    /\ op = "idle"
    /\ \E d \in Drivers :
           RanFlags("get_capabilities", d, NoArgs,
                    Outcome(get_capabilities(d, is_macos), <<>>))

\* o.list is the backend's pane listing at the time of the call; the
\* operation does not ask for it
GetCurrentSessionId ==
    /\ op = "idle"
    /\ \/ \E o \in [list : PaneIdAnswers] :
             RanText("get_current_session_id", "tmux",
                     [NoArgs EXCEPT !.o = o],
                     Tmux_get_current_session_id(environ))
       \/ \E d \in Editors :
             RanText("get_current_session_id", d, NoArgs,
                     VSCode_get_current_session_id)

SupportsSessionManagement ==
    /\ op = "idle"
    /\ \E d \in Drivers :
           RanBool("supports_session_management", d, NoArgs,
                   IF d = "tmux" THEN Tmux_supports_session_management
                   ELSE IF d \in Editors
                   THEN VSCode_supports_session_management(is_macos)
                   ELSE Base_supports_session_management)

SwitchToSession ==
    /\ op = "idle"
    /\ \/ \E session_id \in SessionIds, script \in Scripts,
             o \in [query : QueryAnswers, select_window : RWAnswers,
                    select_pane : RWAnswers, send_keys : RWAnswers] :
             RanBool("switch_to_session", "tmux",
                     [NoArgs EXCEPT !.session_id = session_id,
                                    !.script = script, !.o = o],
                     Tmux_switch_to_session(session_id, script, dry_run, o))
       \/ \E d \in Editors, session_id \in PathTexts, script \in Scripts :
             \E o \in Desktops(d) :
                 RanBool("switch_to_session", d,
                         [NoArgs EXCEPT !.session_id = session_id,
                                        !.script = script, !.o = o],
                         VSCode_switch_to_session(d, session_id, script,
                                                  is_macos, o))

OpenNewTab ==
    /\ op = "idle"
    /\ \/ \E working_directory \in PathTexts, script \in Scripts,
             o \in [create : RWAnswers] :
             RanBool("open_new_tab", "tmux",
                     [NoArgs EXCEPT !.working_directory = working_directory,
                                    !.script = script, !.o = o],
                     Tmux_open_new_tab(working_directory, script, dry_run, o))
       \/ \E d \in Editors, working_directory \in PathTexts,
             script \in Scripts :
             RanBool("open_new_tab", d,
                     [NoArgs EXCEPT !.working_directory = working_directory,
                                    !.script = script],
                     VSCode_open_new_tab(working_directory, script))

\* o.created is the identifier the backend gives to the session that
\* new-session creates; the operation does not ask for it, and o.query is
\* what the backend answers at the time of the query
OpenNewWindow ==
    /\ op = "idle"
    /\ \/ \E working_directory \in PathTexts, script \in Scripts,
             o \in [create : RWAnswers, query : QueryAnswers,
                    send_keys : RWAnswers, created : CreatedIds] :
             RanBool("open_new_window", "tmux",
                     [NoArgs EXCEPT !.working_directory = working_directory,
                                    !.script = script, !.o = o],
                     Tmux_open_new_window(working_directory, script,
                                          dry_run, o))
       \/ \E d \in Editors, working_directory \in PathTexts,
             script \in Scripts,
             o \in [cli_available : BOOLEAN, launch : RWAnswers] :
             RanBool("open_new_window", d,
                     [NoArgs EXCEPT !.working_directory = working_directory,
                                    !.script = script, !.o = o],
                     VSCode_open_new_window(d, working_directory, script, o))

RunInActiveSession ==
    /\ op = "idle"
    /\ \/ \E command \in Commands, o \in [send_keys : RWAnswers] :
             RanBool("run_in_active_session", "tmux",
                     [NoArgs EXCEPT !.command = command, !.o = o],
                     Tmux_run_in_active_session(command, environ, dry_run, o))
       \/ \E d \in Drivers \ {"tmux"}, command \in Commands :
             RanBool("run_in_active_session", d,
                     [NoArgs EXCEPT !.command = command],
                     Base_run_in_active_session(command))

SessionExists ==
    /\ op = "idle"
    /\ \/ \E session_id \in SessionIds, o \in [list : PaneIdAnswers] :
             RanBool("session_exists", "tmux",
                     [NoArgs EXCEPT !.session_id = session_id, !.o = o],
                     Tmux_session_exists(session_id, o))
       \/ \E d \in Editors, session_id \in PathTexts :
             \E o \in Desktops(d) :
                 RanBool("session_exists", d,
                         [NoArgs EXCEPT !.session_id = session_id, !.o = o],
                         VSCode_session_exists(d, session_id, is_macos, o))
       \/ \E session_id \in SessionIds :
             RanBool("session_exists", "minimal",
                     [NoArgs EXCEPT !.session_id = session_id],
                     Base_session_exists(session_id))

SessionInDirectory ==
    /\ op = "idle"
    /\ \/ \E session_id \in SessionIds, directory \in PathTexts,
             o \in [query : PathAnswers] :
             RanBool("session_in_directory", "tmux",
                     [NoArgs EXCEPT !.session_id = session_id,
                                    !.directory = directory, !.o = o],
                     Tmux_session_in_directory(session_id, directory, o))
       \/ \E d \in Drivers \ {"tmux"}, session_id \in SessionIds,
             directory \in PathTexts :
             RanBool("session_in_directory", d,
                     [NoArgs EXCEPT !.session_id = session_id,
                                    !.directory = directory],
                     Base_session_in_directory(session_id, directory))

ListSessions ==
    /\ op = "idle"
    /\ \/ \E o \in [list : ListAnswers] :
             RanSessions("list_sessions", "tmux", [NoArgs EXCEPT !.o = o],
                         Tmux_list_sessions(o))
       \/ \E d \in Drivers \ {"tmux"} :
             RanSessions("list_sessions", d, NoArgs, Base_list_sessions)

FindSessionByWorkingDirectory ==
    /\ op = "idle"
    /\ \/ \E target_path \in PathTexts, subdirectory_ok \in BOOLEAN,
             o \in [list : ListAnswers] :
             RanText("find_session_by_working_directory", "tmux",
                     [NoArgs EXCEPT !.target_path = target_path,
                                    !.subdirectory_ok = subdirectory_ok,
                                    !.o = o],
                     Tmux_find_session_by_working_directory(
                         target_path, subdirectory_ok, o))
       \/ \E d \in Editors, target_path \in PathTexts,
             subdirectory_ok \in BOOLEAN :
             \E o \in Desktops(d) :
                 RanText("find_session_by_working_directory", d,
                         [NoArgs EXCEPT !.target_path = target_path,
                                        !.subdirectory_ok = subdirectory_ok,
                                        !.o = o],
                         VSCode_find_session_by_working_directory(
                             d, target_path, subdirectory_ok, is_macos, o))
       \/ \E target_path \in PathTexts, subdirectory_ok \in BOOLEAN :
             RanText("find_session_by_working_directory", "minimal",
                     [NoArgs EXCEPT !.target_path = target_path,
                                    !.subdirectory_ok = subdirectory_ok],
                     Base_find_session_by_working_directory(
                         target_path, subdirectory_ok))

\* the caller has the result; the driver keeps nothing of the call
Return ==
    /\ op # "idle"
    /\ op' = "idle"
    /\ self' = "none"
    /\ args' = NoArgs
    /\ ret' = NoValue
    /\ raised' = FALSE
    /\ calls' = <<>>
    /\ UNCHANGED <<dry_run, is_macos, environ>>

Next ==
    \/ Detect
    \/ GetCapabilities
    \/ GetCurrentSessionId
    \/ SupportsSessionManagement
    \/ SwitchToSession
    \/ OpenNewTab
    \/ OpenNewWindow
    \/ RunInActiveSession
    \/ SessionExists
    \/ SessionInDirectory
    \/ ListSessions
    \/ FindSessionByWorkingDirectory
    \/ Return

Spec == Init /\ [][Next]_vars

-----------------------------------------------------------------------------
(* Properties of the multiplexer's switch, open and run operations *)

\* a call failed: nonzero exit, or a fault
Failed(c) == c.raised \/ c.returncode # 0

\* the i-th call was made and did not fail
Succeeded(i) == i <= Len(calls) /\ ~Failed(calls[i])

\* positions of the send-keys calls in the log
Sends == {i \in 1..Len(calls) : calls[i].verb = "send-keys"}

OnTmux(name) == op = name /\ self = "tmux"

SwitchOrder ==
    <<"display-message #{window_id}", "select-window", "select-pane",
      "send-keys">>

\* C1: switch_to_session calls, in this order only, the window-id query,
\* select-window, select-pane and (with a script) send-keys; a call that
\* fails is the last one made and the operation returns false.
C1_SwitchStopsAtFirstFailure ==
    OnTmux("switch_to_session") =>
        /\ Len(calls) <= 4
        /\ \A i \in 1..Len(calls) : calls[i].verb = SwitchOrder[i]
        /\ Len(calls) = 4 => Truthy(args.script)
        /\ \A i \in 1..Len(calls) :
              Failed(calls[i]) => i = Len(calls) /\ ~ret.bool

\* C1 witness: select-window failed, nothing was called after it
C1_Witness ==
    /\ OnTmux("switch_to_session")
    /\ Truthy(args.script)
    /\ Len(calls) = 2
    /\ calls[2].executed /\ calls[2].returncode # 0
    /\ ~ret.bool

\* C2: with a script, send-keys is called exactly when the query and both
\* selections succeeded, once, at the target pane, ended by Enter, and the
\* result is its success; without a script no send-keys is called and the
\* result is the success of the query and both selections.
C2_SwitchSendsScriptToTargetPane ==
    OnTmux("switch_to_session") =>
        IF Truthy(args.script)
        THEN /\ Sends = IF Succeeded(1) /\ Succeeded(2) /\ Succeeded(3)
                        THEN {4} ELSE {}
             /\ \A i \in Sends :
                   /\ calls[i].target = args.session_id
                   /\ calls[i].payload = args.script
                   /\ calls[i].enter
             /\ ret.bool <=> (Sends # {} /\ Succeeded(4))
        ELSE /\ Sends = {}
             /\ ret.bool <=>
                    (Succeeded(1) /\ Succeeded(2) /\ Succeeded(3))

\* C2 witness: the script was sent for real and the send failed
C2_Witness ==
    /\ OnTmux("switch_to_session")
    /\ Sends = {4}
    /\ calls[4].executed /\ calls[4].returncode # 0
    /\ calls[4].target = args.session_id
    /\ calls[1].stdout # <<>>
    /\ ~ret.bool

\* C3: when the session-creation call of open_new_window fails, the
\* operation returns false and calls neither the identifier query nor
\* send-keys, with or without a script.
C3_NoPhaseTwoAfterFailedCreation ==
    (OnTmux("open_new_window") /\ Failed(calls[1])) =>
        ~ret.bool /\ Len(calls) = 1

\* C3 witness: the creation failed while a script was supplied
C3_Witness ==
    /\ OnTmux("open_new_window")
    /\ Truthy(args.script)
    /\ calls[1].executed /\ calls[1].returncode # 0
    /\ ~ret.bool

\* C4: open_new_window with a script, creation succeeded, identifier query
\* answered with a nonzero exit or no output: the operation returns true
\* and calls no send-keys.
C4_FailedIdentifierQuerySkipsScript ==
    ( /\ OnTmux("open_new_window")
      /\ Truthy(args.script)
      /\ Succeeded(1)
      /\ Len(calls) >= 2
      /\ ~calls[2].raised
      /\ (calls[2].returncode # 0 \/ calls[2].stdout = <<>>) ) =>
        ret.bool /\ Sends = {}

\* C4 witness: a real creation succeeded, then the query gave no output
C4_Witness ==
    /\ OnTmux("open_new_window")
    /\ Truthy(args.script)
    /\ calls[1].executed /\ Succeeded(1)
    /\ Len(calls) = 2
    /\ calls[2].returncode = 0 /\ calls[2].stdout = <<>> /\ ~calls[2].raised
    /\ ret.bool

-----------------------------------------------------------------------------
(* Properties of dry-run *)

\* the state-changing commands: select-window, select-pane, send-keys,
\* new-window, new-session, and the editor's launcher
StateChanging(c) == c.fn \in {"run_command_rw", "run_command"} /\ c.mutating

\* C5: under dry-run no operation of any driver executes a state-changing
\* command.
C5_DryRunExecutesNoMutation ==
    dry_run => \A i \in 1..Len(calls) : StateChanging(calls[i]) =>
                                            ~calls[i].executed

MutatingOps ==
    {"switch_to_session", "open_new_tab", "open_new_window",
     "run_in_active_session"}

\* C6 as claimed: under dry-run each of the multiplexer's mutating
\* operations returns true, whatever the arguments and the backend.
C6_DryRunAlwaysSucceeds ==
    (dry_run /\ self = "tmux" /\ op \in MutatingOps) => ret.bool

\* C6 as amended: under dry-run no mutating command makes an operation
\* fail; open_new_tab returns true, switch_to_session returns true exactly
\* when its window-id query succeeded, open_new_window returns true unless
\* its identifier query faulted, run_in_active_session returns true exactly
\* when the pane marker is set and not empty.
C6_DryRunSucceedsUnlessReadFails ==
    (dry_run /\ self = "tmux" /\ op \in MutatingOps) =>
        /\ \A i \in 1..Len(calls) :
              calls[i].fn = "run_command_rw" => ~Failed(calls[i])
        /\ op = "open_new_tab" => ret.bool
        /\ op = "switch_to_session" => (ret.bool <=> Succeeded(1))
        /\ op = "open_new_window" =>
              (ret.bool <=> ~(Len(calls) >= 2 /\ calls[2].raised))
        /\ op = "run_in_active_session" =>
              (ret.bool <=> Truthy(environ.TMUX_PANE))

\* C6 witness: a dry-run switch with a script went through all four calls,
\* though the backend would have refused the selections
C6_Witness ==
    /\ dry_run
    /\ OnTmux("switch_to_session")
    /\ Len(calls) = 4
    /\ args.o.select_window.returncode # 0
    /\ args.o.send_keys.raised
    /\ \A i \in 2..4 : ~calls[i].executed
    /\ ret.bool

-----------------------------------------------------------------------------
(* Properties of the multiplexer's directory lookup *)

\* the sessions the listing of the last lookup holds
Listed == Tmux_list_sessions(args.o).ret

\* the resolved path of the i-th listed session
ListedPath(i) == Resolve(Listed[i].working_directory)

\* the resolved target of the last lookup
Target == Resolve(args.target_path)

\* C7: in exact mode the lookup returns an identifier if and only if some
\* listed session's normalized path equals the normalized target, and the
\* identifier is that of such a session.
C7_ExactLookupIsEquality ==
    (OnTmux("find_session_by_working_directory")
        /\ ~args.subdirectory_ok) =>
        LET sessions == Listed
            target == Target
            exact == {i \in 1..Len(sessions) :
                         Resolve(sessions[i].working_directory) = target}
        IN  /\ (ret.text # None) <=> (exact # {})
            /\ ret.text # None =>
                  \E i \in exact : sessions[i].session_id = ret.text

\* C7 witness: nothing is returned though a listed path starts with the
\* target, raw texts of target and equal paths differing elsewhere
C7_Witness ==
    /\ OnTmux("find_session_by_working_directory")
    /\ ~args.subdirectory_ok
    /\ ret.text = None
    /\ Target # <<"/">>
    /\ \E i \in 1..Len(Listed) :
          StartsWith(ListedPath(i), Target) /\ ListedPath(i) # Target

\* C8: with subdirectories permitted, a returned session's normalized path
\* equals the target or begins with the target followed by a separator;
\* a session at /a/b/c is found for target /a/b, one at /a/bc is not.
C8_SubdirectoryLookupNeedsSeparator ==
    (OnTmux("find_session_by_working_directory")
        /\ args.subdirectory_ok) =>
        LET sessions == Listed
            target == Target
            paths == [i \in 1..Len(sessions) |->
                         Resolve(sessions[i].working_directory)]
        IN  /\ ret.text # None =>
                  \E i \in 1..Len(sessions) :
                      /\ sessions[i].session_id = ret.text
                      /\ \/ paths[i] = target
                         \/ StartsWith(paths[i], target \o <<"/">>)
            /\ ( /\ target = <<"/", "a", "/", "b">>
                 /\ \E i \in 1..Len(sessions) :
                       paths[i] = <<"/", "a", "/", "b", "/", "c">> ) =>
                  ret.text # None

\* C8 witness: target /a/b, /a/bc listed first and passed over, the session
\* at /a/b/c returned
C8_Witness ==
    /\ OnTmux("find_session_by_working_directory")
    /\ args.subdirectory_ok
    /\ Target = <<"/", "a", "/", "b">>
    /\ Len(Listed) = 2
    /\ ListedPath(1) = <<"/", "a", "/", "b", "c">>
    /\ ListedPath(2) = <<"/", "a", "/", "b", "/", "c">>
    /\ ret.text = Listed[2].session_id

-----------------------------------------------------------------------------
(* Properties of the capability descriptor *)

AllFlags(b) ==
    [can_create_tabs |-> b, can_create_windows |-> b,
     can_list_sessions |-> b, can_switch_to_session |-> b,
     can_detect_session_id |-> b, can_detect_working_directory |-> b,
     can_paste_commands |-> b, can_run_in_active_session |-> b]

\* C9: get_capabilities returns, after any operations, all flags false for
\* a driver without overrides, all true for the multiplexer, and for an
\* editor create-windows true, switch-to-session the platform flag, the
\* rest false.
C9_CapabilitiesFixedByVariantAndPlatform ==
    op = "get_capabilities" =>
        ret.flags = IF self = "minimal" THEN AllFlags(FALSE)
                    ELSE IF self = "tmux" THEN AllFlags(TRUE)
                    ELSE [AllFlags(FALSE) EXCEPT
                              !.can_create_windows = TRUE,
                              !.can_switch_to_session = is_macos]

\* C9 witness: an editor off the supported platform reports that it cannot
\* switch
C9_Witness ==
    /\ op = "get_capabilities"
    /\ self \in Editors
    /\ ~is_macos
    /\ ~ret.flags.can_switch_to_session
    /\ ret.flags.can_create_windows

\* the negative result of an operation
Negative(name) ==
    IF name = "list_sessions" THEN ret.sessions = <<>>
    ELSE IF name \in {"get_current_session_id",
                      "find_session_by_working_directory"}
    THEN ret.text = None
    ELSE ~ret.bool

\* the capability flag that goes with an operation
FlagOf(name, d, macos) ==
    IF name = "open_new_tab" THEN can_create_tabs(d, macos)
    ELSE IF name = "open_new_window" THEN can_create_windows(d, macos)
    ELSE IF name = "list_sessions" THEN can_list_sessions(d, macos)
    ELSE IF name = "switch_to_session" THEN can_switch_to_session(d, macos)
    ELSE IF name = "get_current_session_id"
    THEN can_detect_session_id(d, macos)
    ELSE IF name = "find_session_by_working_directory"
    THEN can_detect_working_directory(d, macos)
    ELSE can_run_in_active_session(d, macos)

FlaggedOps ==
    {"open_new_tab", "open_new_window", "list_sessions", "switch_to_session",
     "get_current_session_id", "find_session_by_working_directory",
     "run_in_active_session"}

\* C10: an operation whose capability flag is false on its driver returns
\* its negative or empty result, whatever the input and the backend.
C10_FalseFlagMeansNegativeResult ==
    (op \in FlaggedOps /\ ~FlagOf(op, self, is_macos)) => Negative(op)

-----------------------------------------------------------------------------
(* Properties of the editor driver off the supported platform *)

SessionManagementOps ==
    {"session_exists", "find_session_by_working_directory",
     "switch_to_session", "list_sessions", "supports_session_management"}

\* a window of one of the variant's processes matches the path
WindowMatches(variant, path) ==
    \E i \in 1..Len(app_names(variant)) :
        /\ args.o.host[i] = "run"
        /\ ScriptMatch(args.o.desktop[i], path_to_file_url(path))

\* C11: off the supported platform every session-management call of an
\* editor driver returns its negative or empty result and makes no call to
\* the scripting host, whatever the argument and the desktop.
C11_UnsupportedPlatformDoesNothing ==
    (self \in Editors /\ ~is_macos /\ op \in SessionManagementOps) =>
        Negative(op) /\ calls = <<>>

\* C11 witness: session_exists off the platform, for an existing directory
\* that a window of the editor shows, is false without a call
C11_Witness ==
    /\ self = "vscode"
    /\ ~is_macos
    /\ op = "session_exists"
    /\ PathExists(args.session_id)
    /\ WindowMatches(self, args.session_id)
    /\ ~ret.bool
    /\ calls = <<>>

-----------------------------------------------------------------------------
(* Properties of the multiplexer's handling of identifiers and faults *)

IdentifierOps == {"session_exists", "session_in_directory", "switch_to_session"}

\* C12: a multiplexer operation given an empty session identifier returns
\* false and makes no external call, read-only or mutating.
C12_EmptyIdentifierRejectedBeforeAnyCall ==
    (self = "tmux" /\ op \in IdentifierOps /\ ~Truthy(args.session_id)) =>
        ~ret.bool /\ calls = <<>>

\* some call of the operation faulted
SomeCallRaised == \E i \in 1..Len(calls) : calls[i].raised

\* C13: no operation of the multiplexer or of an editor lets a fault out:
\* when a command, a scripting call or a path normalization raises inside
\* it, the operation still returns its negative or empty result.
C13_NoFaultCrossesTheBoundary ==
    (self \in {"tmux"} \cup Editors /\ op # "idle") =>
        /\ ~raised
        /\ SomeCallRaised => Negative(op)

\* C14: a non-null value returned by get_current_session_id denotes a
\* session that exists on the backend at the time of the call; for the
\* multiplexer, a pane that the pane listing contains.
C14_CurrentSessionIdDenotesExistingSession ==
    (op = "get_current_session_id" /\ ret.text # None) =>
        /\ self = "tmux"
        /\ Tmux_session_exists(ret.text, args.o).ret

\* C15: run_in_active_session takes its target from TMUX_PANE without a
\* query: with the marker absent or empty it returns false and makes no
\* call; otherwise it makes exactly one send-keys call to that pane with
\* the command and Enter, and returns true exactly when that call succeeded.
C15_RunTargetsThePaneOfTheMarker ==
    OnTmux("run_in_active_session") =>
        IF ~Truthy(environ.TMUX_PANE)
        THEN ~ret.bool /\ calls = <<>>
        ELSE /\ Len(calls) = 1
             /\ calls[1].verb = "send-keys"
             /\ calls[1].target = environ.TMUX_PANE
             /\ calls[1].payload = args.command
             /\ calls[1].enter
             /\ ret.bool <=> Succeeded(1)

\* C15 witness: with the marker %0 the command ls is sent to pane %0, is
\* executed and the operation returns true
C15_Witness ==
    /\ OnTmux("run_in_active_session")
    /\ environ.TMUX_PANE = Pane0
    /\ args.command = <<"l", "s">>
    /\ ~dry_run
    /\ Len(calls) = 1
    /\ calls[1].executed
    /\ calls[1].target = Pane0
    /\ ret.bool

-----------------------------------------------------------------------------
(* Properties of the editors' detection *)

EditorProgram == <<"v", "s", "c", "o", "d", "e">>

\* what the instance of the other variant answers on the same snapshot
OtherDetects ==
    VSCode_detect(IF self = "vscode" THEN "cursor" ELSE "vscode",
                  args.term_program, platform_name(is_macos), environ).ret

\* CURSOR_TRACE_ID is set in the environment, whatever its value
SecondaryMarkerPresent == environ.CURSOR_TRACE_ID # None

\* C16: with TERM_PROGRAM other than the editors' value no instance
\* detects; with it, the vscode instance detects exactly when
\* CURSOR_TRACE_ID is not set and the cursor instance exactly when it is
\* set, so that exactly one of the two detects.
C16_DetectionDiscriminatesOnMarkerPresence ==
    op = "detect" =>
        IF args.term_program # EditorProgram
        THEN ~ret.bool /\ ~OtherDetects
        ELSE /\ self = "vscode" => (ret.bool <=> ~SecondaryMarkerPresent)
             /\ self = "cursor" => (ret.bool <=> SecondaryMarkerPresent)
             /\ ret.bool <=> ~OtherDetects

-----------------------------------------------------------------------------
(* Properties of the multiplexer's directory comparisons and listing *)

\* the pane's current path as the query of session_in_directory reported it
ReportedPath == Strip(args.o.query.stdout)

\* the query of session_in_directory answered with a path
PathReported ==
    /\ ~args.o.query.raised
    /\ args.o.query.returncode = 0
    /\ ReportedPath # <<>>

\* C17: session_in_directory compares normalized forms: it returns true
\* whenever the path the pane reports and the directory asked for resolve
\* to the same path, also when their texts differ.
C17_SessionInDirectoryComparesNormalizedPaths ==
    (/\ OnTmux("session_in_directory")
     /\ Truthy(args.session_id)
     /\ PathReported
     /\ ~ResolveRaises(args.directory)
     /\ ~ResolveRaises(ReportedPath)
     /\ Resolve(ReportedPath) = Resolve(args.directory)) => ret.bool

\* the output records of the listing: the lines, without the empty piece
\* that follows the last newline
OutputRecords(out) == SelectSeq(Split(out, "\n"), LAMBDA r : r # <<>>)

HasPipe(r) == IndexOf(r, "|", 1) # 0

\* the session a record with a pipe stands for: the text before the first
\* pipe, all the text after it
SessionOf(r) ==
    [session_id |-> SubSeq(r, 1, IndexOf(r, "|", 1) - 1),
     working_directory |-> SubSeq(r, IndexOf(r, "|", 1) + 1, Len(r))]

\* one session per record with a pipe, in listing order
SessionsOf(out) ==
    LET rs == SelectSeq(OutputRecords(out), HasPipe)
    IN  [i \in 1..Len(rs) |-> SessionOf(rs[i])]

\* C18: list_sessions returns, in listing order, one session per output
\* record that holds a pipe, split at the first pipe only; records without
\* a pipe are skipped; a nonzero exit, an empty output or a fault gives the
\* empty sequence.
C18_ListingSplitsEachRecordOnce ==
    OnTmux("list_sessions") =>
        ret.sessions =
            IF \/ args.o.list.raised
               \/ args.o.list.returncode # 0
               \/ args.o.list.stdout = <<>>
            THEN <<>>
            ELSE SessionsOf(args.o.list.stdout)

-----------------------------------------------------------------------------
(* Dry-run against the real run in which every mutation succeeds *)

\* the answers of the backend with every mutating command succeeding and
\* the read-only queries answering as they did
MutationsSucceed(o) ==
    [f \in DOMAIN o |-> IF f \in {"select_window", "select_pane",
                                  "send_keys", "create"}
                        THEN Answer(0, <<>>) ELSE o[f]]

\* the operation of the state, on the same arguments, run without dry-run
\* on a backend where every mutation succeeds
RealRun ==
    LET o == MutationsSucceed(args.o)
    IN  IF op = "switch_to_session"
        THEN Tmux_switch_to_session(args.session_id, args.script, FALSE, o)
        ELSE IF op = "open_new_tab"
        THEN Tmux_open_new_tab(args.working_directory, args.script, FALSE, o)
        ELSE IF op = "open_new_window"
        THEN Tmux_open_new_window(args.working_directory, args.script,
                                  FALSE, o)
        ELSE Tmux_run_in_active_session(args.command, environ, FALSE, o)

\* what a call attempts: the command and its arguments
Attempt(c) ==
    [fn |-> c.fn, verb |-> c.verb, target |-> c.target,
     payload |-> c.payload, enter |-> c.enter, mutating |-> c.mutating]

\* C19: under dry-run a multiplexer operation attempts the same calls with
\* the same arguments and returns the same value as the real run in which
\* every mutating call succeeds, for every outcome of the read-only
\* queries; the mutating calls are not performed under dry-run, the
\* read-only ones are performed in both runs.
C19_DryRunFollowsTheSuccessfulRealRun ==
    (self = "tmux" /\ op \in MutatingOps /\ dry_run) =>
        /\ ret.bool = RealRun.ret
        /\ Len(calls) = Len(RealRun.calls)
        /\ \A i \in 1..Len(calls) :
              /\ Attempt(calls[i]) = Attempt(RealRun.calls[i])
              /\ RealRun.calls[i].executed
              /\ calls[i].executed <=> ~calls[i].mutating

\* C19 witness: a dry-run switch with an init script makes the query,
\* attempts the two selections and the send without performing them, and
\* returns true
C19_Witness ==
    /\ OnTmux("switch_to_session")
    /\ dry_run
    /\ Truthy(args.script)
    /\ Len(calls) = 4
    /\ calls[1].executed
    /\ ~calls[2].executed /\ ~calls[3].executed /\ ~calls[4].executed
    /\ ret.bool

-----------------------------------------------------------------------------
(* Properties of the editors' handling of init scripts *)

\* the operation of the state, on the same arguments and the same desktop,
\* without an init script
WithoutScript ==
    IF op = "switch_to_session"
    THEN VSCode_switch_to_session(self, args.session_id, None, is_macos,
                                  args.o)
    ELSE VSCode_open_new_window(self, args.working_directory, None, args.o)

\* C20: on an editor driver an init script changes nothing of
\* switch_to_session and open_new_window: the result and the calls are
\* those of the same operation without a script, and no call carries the
\* script.
C20_EditorIgnoresInitScript ==
    (self \in Editors /\ op \in {"switch_to_session", "open_new_window"}) =>
        /\ ret.bool = WithoutScript.ret
        /\ calls = WithoutScript.calls
        /\ Truthy(args.script) =>
              \A i \in 1..Len(calls) :
                  calls[i].payload # args.script /\ calls[i].target # args.script

\* C20 witness: open_new_window with the script ls launches the editor on
\* the directory alone and returns true
C20_Witness ==
    /\ self = "cursor"
    /\ op = "open_new_window"
    /\ args.script = <<"l", "s">>
    /\ Len(calls) = 1
    /\ calls[1].target = args.working_directory
    /\ ~Failed(calls[1])
    /\ ret.bool

-----------------------------------------------------------------------------
(* Properties of the order of the multiplexer's directory lookup *)

\* positions of the sessions of a listing whose resolved path is the target
ExactIn(sessions, target) ==
    {i \in 1..Len(sessions) : Resolve(sessions[i].working_directory) = target}

\* the resolved segments of the target
TargetSegs == PathSegs(args.target_path)

\* the segments s lead to a directory properly below the segments t
ProperlyBelow(s, t) == Len(s) > Len(t) /\ SubSeq(s, 1, Len(t)) = t

\* positions of the sessions of a listing in a directory properly below
\* the target
BelowIn(sessions, segs) ==
    {i \in 1..Len(sessions) :
        ProperlyBelow(PathSegs(sessions[i].working_directory), segs)}

ExactAt == ExactIn(Listed, Target)
BelowAt == BelowIn(Listed, TargetSegs)

\* the first position of a non-empty set of positions
First(S) == CHOOSE i \in S : \A j \in S : i <= j

\* C21: with subdirectories permitted the exact pass over the whole listing
\* comes first: when some listed path equals the target the first such
\* session is returned, also when a session below the target is listed
\* before it; a session below the target is returned only when no listed
\* path equals the target, and it is then the first such session.
C21_ExactPassBeforeSubdirectoryPass ==
    (/\ OnTmux("find_session_by_working_directory")
     /\ args.subdirectory_ok
     /\ ~ResolveRaises(args.target_path)) =>
        LET sessions == Listed
            exact == ExactIn(sessions, Target)
            below == BelowIn(sessions, TargetSegs)
        IN  IF exact # {}
            THEN ret.text = sessions[First(exact)].session_id
            ELSE ret.text # None =>
                    /\ below # {}
                    /\ ret.text = sessions[First(below)].session_id

\* C21 witness: the pane in /a/b is listed before the pane in /a, and the
\* lookup of /a returns the pane in /a
C21_Witness ==
    /\ OnTmux("find_session_by_working_directory")
    /\ args.subdirectory_ok
    /\ Target = <<"/", "a">>
    /\ Len(Listed) = 2
    /\ ListedPath(1) = <<"/", "a", "/", "b">>
    /\ ListedPath(2) = <<"/", "a">>
    /\ ret.text = Listed[2].session_id
    /\ ret.text # Listed[1].session_id

-----------------------------------------------------------------------------
(* Properties of the two-phase operations of the multiplexer *)

\* the window-id query of switch_to_session exited with 0 and gave no token
NoWindowToken ==
    /\ ~args.o.query.raised
    /\ args.o.query.returncode = 0
    /\ Strip(args.o.query.stdout) = <<>>

\* C22: when the window-id query of switch_to_session succeeds with an
\* output that is empty after trimming, the operation returns false and
\* makes no select-window, select-pane or send-keys call.
C22_EmptyWindowTokenStopsTheSwitch ==
    (OnTmux("switch_to_session") /\ NoWindowToken) =>
        /\ ~ret.bool
        /\ \A i \in 1..Len(calls) :
              calls[i].verb \notin {"select-window", "select-pane", "send-keys"}

-----------------------------------------------------------------------------
(* Properties of the editors' directory lookup *)

\* the document URLs of the windows the scripting host can see: those of
\* the variant's running processes
WindowUrls ==
    UNION {{args.o.desktop[i].windows[j] :
                j \in 1..Len(args.o.desktop[i].windows)} :
           i \in {k \in 1..Len(app_names(self)) : args.o.desktop[k].running}}
        \ {None}

TargetUrl == path_to_file_url(args.target_path)

\* C23: on the supported platform an editor's lookup returns a session only
\* when some window's document is the target directory or, with
\* subdirectories permitted, a directory below it; never for a window whose
\* document merely starts with the target or is a prefix of it.
C23_EditorLookupFollowsTheResolver ==
    (/\ self \in Editors
     /\ op = "find_session_by_working_directory"
     /\ is_macos
     /\ ret.text # None) =>
        \E u \in WindowUrls :
            \/ u = TargetUrl
            \/ /\ args.subdirectory_ok
               /\ StartsWith(u, TargetUrl \o <<"/">>)

\* a call after the first one faulted
LaterCallRaised == \E i \in 2..Len(calls) : calls[i].raised

CreatedSession ==
    IF calls[1].executed /\ Succeeded(1) THEN args.o.created ELSE None

\* C25: in open_new_window with an init script, the target of the
\* send-keys call, whenever it is issued, is the session that phase 1 of
\* this call created, whatever the backend answers to the identifier query
\* and also under dry-run.
C25_ScriptGoesToTheCreatedSession ==
    (OnTmux("open_new_window") /\ Truthy(args.script)) =>
        \A i \in Sends : calls[i].target = CreatedSession

-----------------------------------------------------------------------------
(* Properties of the subdirectory pass at the root *)

\* C26: with subdirectories permitted the lookup returns a session whenever
\* some listed session is in a directory properly below the target, for
\* every target, the root of the file system included.
C26_SubdirectoryLookupFindsEveryDescendant ==
    (/\ OnTmux("find_session_by_working_directory")
     /\ args.subdirectory_ok
     /\ ~ResolveRaises(args.target_path)
     /\ BelowAt # {}) => ret.text # None

====
